---- MODULE Spec2Model ----
(***************************************************************************)
(* Particle-filter localization core: the endpoint sensor model            *)
(* (sensor_model_endpoint.h), the elevation map, the 6D motion model and   *)
(* the particle filter.                                                    *)
(*                                                                         *)
(* Numbers.  A double or float is a record [nan, big, tiny]: big counts    *)
(* ordinary magnitudes on an integer grid, tiny counts multiples of        *)
(* std::numeric_limits<double>::min(), the smallest positive normal        *)
(* double (2.2e-308).  Every ordinary non-zero magnitude absorbs a tiny    *)
(* summand under round-to-nearest, which is what Round does.               *)
(*                                                                         *)
(* Geometry.  Lengths of the sensor model are integers in units of 0.05 m. *)
(* Poses are planar rigid transforms whose rotation is a multiple of a     *)
(* quarter turn (roll = pitch = 0, yaw counted in quarter turns): a        *)
(* non-commutative subgroup of the transforms the code handles.            *)
(***************************************************************************)
EXTENDS Integers, Sequences, FiniteSets

VARIABLES
    particles,      \* std::vector<Particle>: function 0..n-1 -> [pose, weight]
    pcs_robot,      \* the caller's scan clouds (the objects behind the Ptr's)
    pcs_in,         \* history: the scan clouds as the caller passed them
    pc,             \* position of the thread calling compute_particle_weights
    n_threads,      \* boost::thread::hardware_concurrency()
    created,        \* loop counter t of the thread-creating loop
    wpc,            \* per worker thread: "none", "run", "done"
    widx,           \* per worker thread: its loop index i
    max_weight,     \* local max_weight of compute_particle_weights
    writers,        \* history: per particle, the workers that wrote its weight in this call
    p_min,          \* the sentinel minimum weight
    stale_point,    \* what a read past the end of a cloud yields
    map_,           \* ElevationMap::map_
    x_size,         \* map_.size()
    y_size,         \* map_[0].size()
    resolution_,    \* ElevationMap::resolution_
    x_min_,         \* ElevationMap::x_min_
    y_min_,         \* ElevationMap::y_min_
    em_state,       \* "none", "built", "aborted"
    point_cloud,    \* the constructor's point cloud argument
    resolution,     \* the constructor's resolution argument
    start_pose_,    \* MotionModel::start_pose_
    covariance_,    \* MotionModel6d::covariance_
    start_variance_,\* MotionModel6d::start_variance_
    mean,           \* the last value get_mean() returned
    init_pose,      \* history: the start_pose argument of the last init
    base,           \* history: the particle poses when the last init returned
    acc,            \* history: the product of the movements since the last init
    noiseless,      \* history: no noise could be injected since the last init began
    ops             \* history: the filter operations since the last init

sensorVars == <<pcs_robot, pcs_in, pc, n_threads, created, wpc, widx, max_weight, writers, p_min,
               stale_point>>
mapVars == <<map_, x_size, y_size, resolution_, x_min_, y_min_, em_state, point_cloud, resolution>>
filterVars == <<start_pose_, covariance_, start_variance_, mean, init_pose, base, acc, noiseless, ops>>
vars == <<particles, sensorVars, mapVars, filterVars>>

----------------------------------------------------------------------------
(* Bounds of the model. *)
MaxParticles == 3
MaxThreads == 3
\* The largest population the particle filter is initialised with.
MaxFilterParticles == 1
\* The number of update_motion and compute_particle_weights calls after one init.
MaxCalls == 2
\* The longest point cloud an elevation map is built from.
MaxPoints == 3
\* The largest grid edge an undefined size conversion is taken to produce.
MaxUndefinedSize == 2

----------------------------------------------------------------------------
(* Floating-point values. *)
Dbl(b, t) == [nan |-> FALSE, big |-> b, tiny |-> t]
NaN == [nan |-> TRUE, big |-> 0, tiny |-> 0]
Zero == Dbl(0, 0)
\* std::numeric_limits<double>::min(): the smallest POSITIVE normal double.
DBL_MIN == Dbl(0, 1)
Round(b, t) == IF b # 0 THEN Dbl(b, 0) ELSE Dbl(0, t)
\* a < b on doubles: false as soon as one side is NaN.
Less(a, b) ==
    /\ ~a.nan
    /\ ~b.nan
    /\ \/ a.big < b.big
       \/ a.big = b.big /\ a.tiny < b.tiny
\* std::max(a, b) is (a < b) ? b : a.
StdMax(a, b) == IF Less(a, b) THEN b ELSE a
Minus(a, b) == IF a.nan \/ b.nan THEN NaN ELSE Round(a.big - b.big, a.tiny - b.tiny)
Min(a, b) == IF a < b THEN a ELSE b
Max(a, b) == IF a < b THEN b ELSE a

----------------------------------------------------------------------------
(* Points, clouds and poses. *)
Pt(x, y) == [x |-> x, y |-> y, fin |-> TRUE]
\* A point with a non-finite coordinate.
NonFinitePt == [x |-> 0, y |-> 0, fin |-> FALSE]
Pose(r, x, y) == [rot |-> r, x |-> x, y |-> y]
Identity == Pose(0, 0, 0)
\* The vector (x, y) turned by r quarter turns.
Rotate(r, x, y) ==
    CASE r = 0 -> <<x, y>>
      [] r = 1 -> <<-y, x>>
      [] r = 2 -> <<-x, -y>>
      [] OTHER -> <<y, -x>>
\* tf::Transform::operator*: a * b applies b in the frame of a.
Compose(a, b) ==
    LET v == Rotate(a.rot, b.x, b.y)
    IN  Pose((a.rot + b.rot) % 4, a.x + v[1], a.y + v[2])
\* pcl_ros::transformPointCloud on one point; a non-finite point stays non-finite.
TransformPoint(pose, p) ==
    IF ~p.fin THEN p
    ELSE LET v == Rotate(pose.rot, p.x, p.y)
         IN  Pt(pose.x + v[1], pose.y + v[2])
TransformCloud(pose, cloud) == [i \in 1..Len(cloud) |-> TransformPoint(pose, cloud[i])]
Particle(pose) == [pose |-> pose, weight |-> Zero]

----------------------------------------------------------------------------
(* SensorModelEndpoint. *)

\* res_ as the constructor sets it: 0.1 m.
res_ == 2
\* d_max of compute_particle_weight: 0.5 m.
d_max == 10
\* The grid of the float quotient d_tot / n_tot: weights count 1/WeightGrid units.
WeightGrid == 12
\* The map handed to the constructor and indexed by kdtree_.
MapPoints == {Pt(0, 0), Pt(12, 0)}
\* The values the sentinel p_min may have (it is declared outside this
\* header): a positive floor, the case in which a population of sentinels
\* normalises to 0.
PMinValues == {Dbl(1, 0), Dbl(WeightGrid, 0)}

RECURSIVE SumOver(_, _)
\* The sum of f[i] over the finite index set S.
SumOver(f, S) ==
    IF S = {} THEN 0
    ELSE LET i == CHOOSE j \in S : TRUE
         IN  f[i] + SumOver(f, S \ {i})

Voxel(p) == <<p.x \div res_, p.y \div res_>>
\* Voxels are emitted in the order of their linear index (x runs fastest).
VoxelBefore(u, v) == u[2] < v[2] \/ (u[2] = v[2] /\ u[1] < v[1])
RECURSIVE VoxelSeq(_)
VoxelSeq(S) ==
    IF S = {} THEN << >>
    ELSE LET m == CHOOSE u \in S : \A v \in S \ {u} : VoxelBefore(u, v)
         IN  <<m>> \o VoxelSeq(S \ {m})
\* pcl::VoxelGrid: non-finite points are dropped, the points of one leaf are
\* replaced by their centroid.
VoxelGrid(cloud) ==
    LET fin == {i \in 1..Len(cloud) : cloud[i].fin}
        vs == VoxelSeq({Voxel(cloud[i]) : i \in fin})
        members(v) == {i \in fin : Voxel(cloud[i]) = v}
        xs == [i \in 1..Len(cloud) |-> cloud[i].x]
        ys == [i \in 1..Len(cloud) |-> cloud[i].y]
    IN  [k \in 1..Len(vs) |->
            Pt(SumOver(xs, members(vs[k])) \div Cardinality(members(vs[k])),
               SumOver(ys, members(vs[k])) \div Cardinality(members(vs[k])))]
\* sparsify(point_cloud, point_cloud_sparse): the filtered cloud.
sparsify(cloud) == VoxelGrid(cloud)

SqDist(p, q) == (p.x - q.x) * (p.x - q.x) + (p.y - q.y) * (p.y - q.y)
\* kdtree_.nearestKSearch(p, 1, k_indices, d): d[0], the squared distance to the nearest map point.
nearestKSearch(p) ==
    LET ds == {SqDist(p, q) : q \in MapPoints}
    IN  CHOOSE d \in ds : \A e \in ds : d <= e
\* std::sqrt on the length grid.
Sqrt(k) == CHOOSE r \in 0..k : r * r <= k /\ (r + 1) * (r + 1) > k

\* The points of all clouds that pass the isfinite test, as <<ic, ip>> pairs.
FiniteIndices(pcs_map) ==
    UNION {{<<ic, ip>> : ip \in {j \in 1..Len(pcs_map[ic]) : pcs_map[ic][j].fin}} :
              ic \in 1..Len(pcs_map)}
\* n_tot after the loops.
n_tot(pcs, particle) ==
    LET pcs_map == [i \in 1..Len(pcs) |-> TransformCloud(particle.pose, pcs[i])]
    IN  Cardinality(FiniteIndices(pcs_map))
\* The values a read past the end of a cloud may yield.
StalePoints == {Pt(0, 0), Pt(40, 40)}
\* Line 191: the point handed to nearestKSearch is written pc_map[ic], indexed
\* by the CLOUD counter ic; the point p of the inner loop is tested but not
\* used.  pc_map, a name the header never declares, is read as the cloud in
\* the map frame being walked, pcs_map[ic]; a cloud with no such element is
\* read past its end.
QueryPoint(pcs_map, ic) ==
    IF ic <= Len(pcs_map[ic]) THEN pcs_map[ic][ic] ELSE stale_point
\* d_tot after the loops.
d_tot(pcs, particle) ==
    LET pcs_map == [i \in 1..Len(pcs) |-> TransformCloud(particle.pose, pcs[i])]
        idx == FiniteIndices(pcs_map)
        capped == [e \in idx |-> Min(d_max, Sqrt(nearestKSearch(QueryPoint(pcs_map, e[1]))))]
    IN  SumOver(capped, idx)
\* The float quotient d_tot / n_tot; 0.0f / 0 is NaN.
MeanDistance(d, n) == IF n = 0 THEN NaN ELSE Dbl((d * WeightGrid) \div n, 0)
\* compute_particle_weight: the weight it stores in the particle.
compute_particle_weight(pcs, particle) ==
    IF Len(pcs) < 1 THEN p_min
    ELSE MeanDistance(d_tot(pcs, particle), n_tot(pcs, particle))

\* The scan sets a caller passes: no cloud, an empty cloud, a cloud of one
\* non-finite point, a scan point on a map point, one 0.2 m off, one beyond d_max,
\* a cloud of two points in two leaves, and two clouds of which the first has
\* two points in one leaf.
ScanSets ==
    { << >>,
      << << >> >>,
      << <<NonFinitePt>> >>,
      << <<Pt(0, 0)>> >>,
      << <<Pt(4, 0)>> >>,
      << <<Pt(0, 40)>> >>,
      << <<Pt(0, 0), Pt(4, 0)>> >>,
      << <<Pt(4, 0), Pt(5, 1)>>, <<Pt(0, 3), NonFinitePt>> >> }
\* The poses of the particles to weight.
SensorPoses == {Identity, Pose(1, 2, 0)}

Size(ps) == Cardinality(DOMAIN ps)
\* Faulty variant: the quotient truncated instead of rounded up.
particles_per_thread_floor(n, T) == n \div T
\* std::ceil(particles.size() / float(n_threads)), converted to int.
particles_per_thread(n, T) == (n + T - 1) \div T
start_index(n, T, thread) == thread * particles_per_thread(n, T)
\* Faulty variant: the last particle is left out.
stop_index_short(n, T, thread) == Min(n - 1, (thread + 1) * particles_per_thread(n, T))
stop_index(n, T, thread) == Min(n, (thread + 1) * particles_per_thread(n, T))
\* The indices worker `thread` loops over.
Range(n, T, thread) == {i \in 0..(n - 1) : start_index(n, T, thread) <= i /\ i < stop_index(n, T, thread)}
\* Faulty variant: the caller waits for one thread only.
JoinOneReturns == \E t \in 0..(n_threads - 1) : wpc[t] = "done"
\* threads.join_all() returns: every created thread has returned.
JoinAllReturns == \A t \in 0..(n_threads - 1) : wpc[t] = "done"

\* The loop of lines 115-116.
RECURSIVE MaxFrom(_, _, _)
MaxFrom(m, ps, i) ==
    IF i >= Size(ps) THEN m
    ELSE MaxFrom(StdMax(m, ps[i].weight), ps, i + 1)
FindMaxWeight(ps) == MaxFrom(DBL_MIN, ps, 0)
\* The loop of lines 120-121.
SubtractMax(ps, m) == [i \in DOMAIN ps |-> [ps[i] EXCEPT !.weight = Minus(ps[i].weight, m)]]
\* The sequential path (MULTITHREADING false) on sparsified clouds, with the
\* normalisation that follows it.
SequentialWeights(pcs, ps) ==
    LET weighted == [i \in DOMAIN ps |->
                        [ps[i] EXCEPT !.weight = compute_particle_weight(pcs, ps[i])]]
    IN  SubtractMax(weighted, FindMaxWeight(weighted))

NoWorkers == [t \in 0..(n_threads - 1) |-> "none"]
NoWriters == [i \in DOMAIN particles |-> {}]

\* compute_particle_weights is called with the scan clouds pcs; with no
\* particle it returns at once.
Call(pcs) ==
    /\ pc \in {"idle", "returned"}
    /\ pcs_robot' = pcs
    /\ pcs_in' = pcs
    /\ pc' = IF Size(particles) < 1 THEN "returned" ELSE "sparsify"
    /\ created' = 0
    /\ wpc' = NoWorkers
    /\ widx' = [t \in 0..(n_threads - 1) |-> 0]
    /\ writers' = NoWriters
    /\ UNCHANGED <<particles, n_threads, max_weight, p_min, stale_point, mapVars, filterVars>>

\* Lines 83-84: every cloud is filtered into itself.
Sparsify ==
    /\ pc = "sparsify"
    /\ pcs_robot' = [i \in 1..Len(pcs_robot) |-> sparsify(pcs_robot[i])]
    /\ pc' = "create"
    /\ UNCHANGED <<particles, pcs_in, n_threads, created, wpc, widx, max_weight, writers,
                   p_min, stale_point, mapVars, filterVars>>

\* Lines 95-101: one more worker thread is created and starts.
CreateThread ==
    /\ pc = "create"
    /\ created < n_threads
    /\ wpc' = [wpc EXCEPT ![created] = "run"]
    /\ widx' = [widx EXCEPT ![created] = start_index(Size(particles), n_threads, created)]
    /\ created' = created + 1
    /\ UNCHANGED <<particles, pcs_robot, pcs_in, pc, n_threads, max_weight, writers,
                   p_min, stale_point, mapVars, filterVars>>

\* Lines 139-140: one turn of a worker's loop, or its end.
WorkerStep(t) ==
    /\ wpc[t] = "run"
    /\ IF widx[t] < stop_index(Size(particles), n_threads, t)
       THEN /\ particles' = [particles EXCEPT ![widx[t]].weight =
                                compute_particle_weight(pcs_robot, particles[widx[t]])]
            /\ writers' = [writers EXCEPT ![widx[t]] = @ \cup {t}]
            /\ widx' = [widx EXCEPT ![t] = @ + 1]
            /\ UNCHANGED wpc
       ELSE /\ wpc' = [wpc EXCEPT ![t] = "done"]
            /\ UNCHANGED <<particles, writers, widx>>
    /\ UNCHANGED <<pcs_robot, pcs_in, pc, n_threads, created, max_weight, p_min,
                   stale_point, mapVars, filterVars>>

\* Line 104: join_all returns.
JoinAll ==
    /\ pc = "create"
    /\ created = n_threads
    /\ JoinAllReturns
    /\ pc' = "findmax"
    /\ UNCHANGED <<particles, pcs_robot, pcs_in, n_threads, created, wpc, widx, max_weight,
                   writers, p_min, stale_point, mapVars, filterVars>>

\* Lines 114-116.
FindMax ==
    /\ pc = "findmax"
    /\ max_weight' = FindMaxWeight(particles)
    /\ pc' = "normalize"
    /\ UNCHANGED <<particles, pcs_robot, pcs_in, n_threads, created, wpc, widx, writers,
                   p_min, stale_point, mapVars, filterVars>>

\* Lines 120-122.
Normalize ==
    /\ pc = "normalize"
    /\ particles' = SubtractMax(particles, max_weight)
    /\ pc' = "returned"
    /\ UNCHANGED <<pcs_robot, pcs_in, n_threads, created, wpc, widx, max_weight, writers,
                   p_min, stale_point, mapVars, filterVars>>

\* The elevation map and the filter's motion model are not in use.
MapIdle ==
    /\ map_ = << >>
    /\ x_size = 0
    /\ y_size = 0
    /\ resolution_ = 0
    /\ x_min_ = 0
    /\ y_min_ = 0
    /\ em_state = "none"
    /\ point_cloud = << >>
    /\ resolution = 0
FilterIdle ==
    /\ start_pose_ = Identity
    /\ covariance_ = << >>
    /\ start_variance_ = << >>
    /\ mean = <<0, 0>>
    /\ init_pose = Identity
    /\ base = << >>
    /\ acc = Identity
    /\ noiseless = FALSE
    /\ ops = << >>

InitSensor ==
    /\ \E n \in 0..MaxParticles :
          particles \in [0..(n - 1) -> {Particle(p) : p \in SensorPoses}]
    /\ n_threads \in 1..MaxThreads
    /\ p_min \in PMinValues
    /\ stale_point \in StalePoints
    /\ pcs_robot = << >>
    /\ pcs_in = << >>
    /\ pc = "idle"
    /\ created = 0
    /\ wpc = NoWorkers
    /\ widx = [t \in 0..(n_threads - 1) |-> 0]
    /\ max_weight = Zero
    /\ writers = NoWriters
    /\ MapIdle
    /\ FilterIdle

NextSensor ==
    \/ \E pcs \in ScanSets \cup {pcs_robot} : Call(pcs)
    \/ Sparsify
    \/ CreateThread
    \/ \E t \in 0..(n_threads - 1) : WorkerStep(t)
    \/ JoinAll
    \/ FindMax
    \/ Normalize

SpecSensor == InitSensor /\ [][NextSensor]_vars

----------------------------------------------------------------------------
(* ElevationMap.  Lengths are integers in units of 0.5 mm, so the floor      *)
(* resolution_min_ = 1e-3 is 2; heights are doubles on the same grid.  The   *)
(* construction depends on coordinates only through their quotients by the   *)
(* resolution, so a cloud at resolution 1 m is the same cloud scaled to a    *)
(* few units.                                                                *)

\* resolution_min_ (1.0e-3).
resolution_min_ == 2
\* std::numeric_limits<double>::max(), far above every coordinate of the model.
DBL_MAX == 1000
\* size_t, at a width that keeps every converted negative index above every grid size.
SizeTModulus == 65536
ToSizeT(i) == i % SizeTModulus

EPt(x, y, z) == [x |-> x, y |-> y, z |-> z, fin |-> TRUE]
\* A point whose x or y is not finite.
ENonFinite(z) == [x |-> 0, y |-> 0, z |-> z, fin |-> FALSE]
\* The points clouds are made of, and the requested resolutions (1 is below the floor).
EMPoints == {EPt(0, 0, 1), EPt(0, 0, 2), EPt(4, 4, 5), EPt(0, 0, -1), EPt(-3, 2, 0),
             EPt(5, 1, 3), ENonFinite(7)}
Resolutions == {1, 2, 4}
Clouds == UNION {[1..k -> EMPoints] : k \in 0..MaxPoints}

FiniteXY(cloud) == {i \in 1..Len(cloud) : cloud[i].fin}
\* Lines 98-111: the limits of the finite points; the maxima start at the
\* smallest POSITIVE double.
RECURSIVE MinCoord(_, _, _)
MinCoord(m, c, S) ==
    IF S = {} THEN m
    ELSE LET i == CHOOSE j \in S : TRUE
         IN  MinCoord(Min(m, c[i]), c, S \ {i})
RECURSIVE MaxCoord(_, _, _)
MaxCoord(m, c, S) ==
    IF S = {} THEN m
    ELSE LET i == CHOOSE j \in S : TRUE
         IN  MaxCoord(StdMax(m, Dbl(c[i], 0)), c, S \ {i})
Xs(cloud) == [i \in 1..Len(cloud) |-> cloud[i].x]
Ys(cloud) == [i \in 1..Len(cloud) |-> cloud[i].y]
\* Lines 114-115: the quotient uses the REQUESTED resolution, the product the clamped one.
Origin(c_min, res, res_clamped) == (c_min \div res) * res_clamped
\* (x_max - x_min_) / resolution_ as a double.
Extent(c_max, origin) == Minus(c_max, Dbl(origin, 0))
\* Lines 118-119: std::ceil<size_t> converts its argument to size_t (a
\* truncation) before rounding, so the quotient is truncated.  The conversion
\* of a negative double is undefined: any size, or (0) a failed allocation.
SizeOutcomes(extent, res_clamped) ==
    IF extent.big < 0 THEN 0..MaxUndefinedSize
    ELSE {Max(extent.big \div res_clamped, 1)}

\* check(ix, iy), its arguments converted to size_t.
check(ix, iy, xs, ys) == ToSizeT(ix) < xs /\ ToSizeT(iy) < ys
\* tile(x, y, ix, iy): <<found, ix, iy>>.
tile(p, xmin, ymin, res_clamped, xs, ys) ==
    IF ~p.fin THEN <<FALSE, 0, 0>>
    ELSE LET ix_tmp == (p.x - xmin) \div res_clamped
             iy_tmp == (p.y - ymin) \div res_clamped
         IN  IF check(ix_tmp, iy_tmp, xs, ys) THEN <<TRUE, ix_tmp, iy_tmp>>
             ELSE <<FALSE, 0, 0>>
\* Lines 127-137: the points are written in order; a NaN cell is first set to
\* std::numeric_limits<double>::min().
RECURSIVE Fill(_, _, _, _, _, _, _, _)
Fill(m, cloud, i, xmin, ymin, res_clamped, xs, ys) ==
    IF i > Len(cloud) THEN m
    ELSE LET t == tile(cloud[i], xmin, ymin, res_clamped, xs, ys)
             c == <<t[2], t[3]>>
             seeded == IF m[c].nan THEN DBL_MIN ELSE m[c]
         IN  IF t[1]
             THEN Fill([m EXCEPT ![c] = StdMax(seeded, Dbl(cloud[i].z, 0))],
                       cloud, i + 1, xmin, ymin, res_clamped, xs, ys)
             ELSE Fill(m, cloud, i + 1, xmin, ymin, res_clamped, xs, ys)
\* elevation(x, y): a finite query point's cell value, NaN outside the map.
elevation(p) ==
    LET t == tile(p, x_min_, y_min_, resolution_, x_size, y_size)
    IN  IF t[1] THEN map_[<<t[2], t[3]>>] ELSE NaN

\* ElevationMap::ElevationMap(point_cloud, resolution).
ElevationMap(cloud, res) ==
    LET res_clamped == Max(resolution_min_, res)
        fin == FiniteXY(cloud)
        xmin == Origin(MinCoord(DBL_MAX, Xs(cloud), fin), res, res_clamped)
        ymin == Origin(MinCoord(DBL_MAX, Ys(cloud), fin), res, res_clamped)
        xext == Extent(MaxCoord(DBL_MIN, Xs(cloud), fin), xmin)
        yext == Extent(MaxCoord(DBL_MIN, Ys(cloud), fin), ymin)
    IN  /\ em_state = "none"
        /\ point_cloud' = cloud
        /\ resolution' = res
        /\ resolution_' = res_clamped
        /\ x_min_' = xmin
        /\ y_min_' = ymin
        /\ \E xs \in SizeOutcomes(xext, res_clamped), ys \in SizeOutcomes(yext, res_clamped) :
              IF xs = 0 \/ ys = 0
              THEN /\ em_state' = "aborted"
                   /\ x_size' = 0
                   /\ y_size' = 0
                   /\ map_' = << >>
              ELSE /\ em_state' = "built"
                   /\ x_size' = xs
                   /\ y_size' = ys
                   /\ map_' = Fill([c \in (0..(xs - 1)) \X (0..(ys - 1)) |-> NaN],
                                   cloud, 1, xmin, ymin, res_clamped, xs, ys)
        /\ UNCHANGED <<particles, sensorVars, filterVars>>

SensorIdle ==
    /\ pcs_robot = << >>
    /\ pcs_in = << >>
    /\ pc = "idle"
    /\ n_threads = 1
    /\ created = 0
    /\ wpc = << >>
    /\ widx = << >>
    /\ max_weight = Zero
    /\ writers = << >>
    /\ p_min = Dbl(1, 0)
    /\ stale_point = Pt(0, 0)

InitMap == particles = << >> /\ MapIdle /\ SensorIdle /\ FilterIdle
NextMap == \E cloud \in Clouds, res \in Resolutions : ElevationMap(cloud, res)
SpecMap == InitMap /\ [][NextMap]_vars

----------------------------------------------------------------------------
(* MotionModel6d and ParticleFilter.  A motion increment is the vector       *)
(* <<x, y, yaw>> of a planar movement (z, roll and pitch are 0 and stay 0);  *)
(* the covariance is the matching 3x3 block, in units of 0.1.                *)

\* tf::Matrix3x3::getRPY: the yaw in (-pi, pi], in quarter turns.
getRPY(rot) == IF rot = 3 THEN -1 ELSE rot
\* tf::Matrix3x3::setRPY: the rotation of a yaw given in quarter turns.
setRPY(yaw) == yaw % 4
\* covariance_ * increment.
MatVec(c, v) == [i \in 1..3 |-> c[i][1] * v[1] + c[i][2] * v[2] + c[i][3] * v[3]]
ZeroCovariance == <<<<0, 0, 0>>, <<0, 0, 0>>, <<0, 0, 0>>>>
\* Identity() * 0.1, the constructor's covariance.
DefaultCovariance == <<<<1, 0, 0>>, <<0, 1, 0>>, <<0, 0, 1>>>>
ZeroVariance == <<0, 0, 0>>
\* start_variance_(6, 0.1), the constructor's start variance.
DefaultVariance == <<1, 1, 1>>
\* One draw of a GaussVectorGenerator component: the mean when the variance
\* is 0, the mean or a neighbouring value otherwise.
Sample(mu, variance) == IF variance = 0 THEN {mu} ELSE {mu, mu + 1}
\* The transforms one call of the two generators can yield.
NoisyTransforms(origin, yaw, variance) ==
    {Pose(setRPY(r), x, y) : x \in Sample(origin[1], variance[1]),
                             y \in Sample(origin[2], variance[2]),
                             r \in Sample(yaw, variance[3])}
\* Faulty variant: the movement applied on the left, in the world frame.
MoveParticleLeft(pose, noisy_movement) == Compose(noisy_movement, pose)
\* Line 98: the movement is applied on the right, in the particle's frame.
MoveParticle(pose, noisy_movement) == Compose(pose, noisy_movement)

StartPoses == {Identity, Pose(1, 2, 0), Pose(0, 3, 1)}
Movements == {Identity, Pose(0, 1, 0), Pose(1, 0, 0)}
\* The values an uninitialised tf::Vector3 may hold.
Uninitialised == {<<0, 0>>, <<7, -7>>}

\* std::vector::resize(n, value): the first elements are kept, new ones are copies of value.
Resize(ps, n, value) == [i \in 0..(n - 1) |-> IF i < Size(ps) THEN ps[i] ELSE value]

\* MotionModel6d::init(particles): the poses it may give the particles, drawn
\* around start_pose_.
InitPoses(start, n) ==
    [0..(n - 1) -> NoisyTransforms(<<start.x, start.y>>, getRPY(start.rot), start_variance_)]
\* MotionModel::init(start_pose, particles) of the base class: keep the start
\* pose, then scatter the particles.
MotionModelInit(start, ps, poses) ==
    /\ start_pose_' = start
    /\ particles' = [i \in DOMAIN ps |-> [ps[i] EXCEPT !.pose = poses[i]]]

\* ParticleFilter::init(n_particles, start_pose).  The runs explored are an
\* init (possibly repeated at once), up to MaxCalls motion updates and
\* weight computations in any order, and a final get_mean, which changes nothing of the filter.
init(n_particles, start_pose) ==
    /\ Len(ops) <= 1
    /\ mean' = <<0, 0>>
    /\ \E poses \in InitPoses(Identity, n_particles) :
          /\ MotionModelInit(Identity, Resize(particles, n_particles, Particle(start_pose)), poses)
          /\ base' = poses
    /\ init_pose' = start_pose
    /\ acc' = Identity
    /\ noiseless' = TRUE
    /\ ops' = IF start_variance_ = ZeroVariance THEN <<"init0">> ELSE <<"init">>
    /\ UNCHANGED <<covariance_, start_variance_, sensorVars, mapVars>>

\* Faulty variant: every moved particle is built afresh from its new pose.
move_particles_fresh(movement, ps) ==
    LET increment == <<movement.x, movement.y, getRPY(movement.rot)>>
        variance == MatVec(covariance_, increment)
        noisy == NoisyTransforms(<<movement.x, movement.y>>, getRPY(movement.rot), variance)
    IN  {[i \in DOMAIN ps |-> Particle(MoveParticle(ps[i].pose, draw[i]))] :
            draw \in [DOMAIN ps -> noisy]}
\* MotionModel6d::move_particles(movement, particles): the populations it may leave.
move_particles(movement, ps) ==
    LET increment == <<movement.x, movement.y, getRPY(movement.rot)>>
        variance == MatVec(covariance_, increment)
        noisy == NoisyTransforms(<<movement.x, movement.y>>, getRPY(movement.rot), variance)
    IN  {[i \in DOMAIN ps |-> [ps[i] EXCEPT !.pose = MoveParticle(ps[i].pose, draw[i])]] :
            draw \in [DOMAIN ps -> noisy]}

\* ParticleFilter::update_motion(movement), through MotionModel::update.
update_motion(movement) ==
    /\ ops # << >>
    /\ ops[Len(ops)] # "mean"
    /\ Len(ops) - 1 < MaxCalls
    /\ particles' \in move_particles(movement, particles)
    /\ acc' = Compose(acc, movement)
    /\ noiseless' = (noiseless /\ covariance_ = ZeroCovariance)
    /\ ops' = Append(ops, IF movement = Identity THEN "move_identity" ELSE "move")
    /\ UNCHANGED <<start_pose_, covariance_, start_variance_, mean, init_pose, base,
                   sensorVars, mapVars>>

\* The scan sets the caller of the filter observes between motion updates.
FilterScans == {<< <<Pt(0, 0)>> >>, << <<Pt(4, 0)>> >>}
\* SensorModelEndpoint::compute_particle_weights(pcs_robot, particles) called on
\* the filter's population from call to return: the early return on an empty
\* population, the clouds sparsified, every particle weighted, the maximum
\* subtracted.  The weights the worker threads leave are those of the
\* sequential loop.
compute_particle_weights(pcs) ==
    /\ ops # << >>
    /\ ops[Len(ops)] # "mean"
    /\ Len(ops) - 1 < MaxCalls
    /\ particles' = IF Size(particles) < 1 THEN particles
                    ELSE SequentialWeights([i \in 1..Len(pcs) |-> sparsify(pcs[i])], particles)
    /\ ops' = Append(ops, "weigh")
    /\ UNCHANGED <<start_pose_, covariance_, start_variance_, mean, init_pose, base, acc,
                   noiseless, sensorVars, mapVars>>

\* ParticleFilter::get_mean(): the local `mean` is never initialised before
\* the origins are added to it.
get_mean ==
    /\ ops # << >>
    /\ ops[Len(ops)] # "mean"
    /\ \E garbage \in Uninitialised :
          LET xs == [i \in DOMAIN particles |-> particles[i].pose.x]
              ys == [i \in DOMAIN particles |-> particles[i].pose.y]
          IN  mean' = <<(garbage[1] + SumOver(xs, DOMAIN particles)) \div Size(particles),
                        (garbage[2] + SumOver(ys, DOMAIN particles)) \div Size(particles)>>
    /\ ops' = Append(ops, "mean")
    /\ UNCHANGED <<particles, start_pose_, covariance_, start_variance_, init_pose, base, acc,
                   noiseless, sensorVars, mapVars>>

set_start_pose_variance(variance) ==
    /\ start_variance_' = variance
    /\ UNCHANGED <<particles, start_pose_, covariance_, mean, init_pose, base, acc, noiseless,
                   ops, sensorVars, mapVars>>

set_motion_covariance(covariance) ==
    /\ covariance_' = covariance
    /\ UNCHANGED <<particles, start_pose_, start_variance_, mean, init_pose, base, acc,
                   noiseless, ops, sensorVars, mapVars>>

\* A filter around a freshly constructed MotionModel6d.
InitFilter ==
    /\ particles = << >>
    /\ start_pose_ = Identity
    /\ covariance_ = DefaultCovariance
    /\ start_variance_ = DefaultVariance
    /\ mean = <<0, 0>>
    /\ init_pose = Identity
    /\ base = << >>
    /\ acc = Identity
    /\ noiseless = FALSE
    /\ ops = << >>
    /\ SensorIdle
    /\ MapIdle

NextFilter ==
    \/ \E n \in 1..MaxFilterParticles, start_pose \in StartPoses : init(n, start_pose)
    \/ \E movement \in Movements : update_motion(movement)
    \/ \E pcs \in FilterScans : compute_particle_weights(pcs)
    \/ get_mean
    \/ \E variance \in {ZeroVariance, DefaultVariance} : set_start_pose_variance(variance)
    \/ \E covariance \in {ZeroCovariance, DefaultCovariance} : set_motion_covariance(covariance)

SpecFilter == InitFilter /\ [][NextFilter]_vars

----------------------------------------------------------------------------
(* Claims about the sensor model, checked under SpecSensor. *)

LeqZero(w) == ~w.nan /\ (w = Zero \/ Less(w, Zero))
PostJoin == pc \in {"findmax", "normalize", "returned"} /\ Size(particles) >= 1

\* C1: when compute_particle_weights returns on a non-empty population, the
\* maximum weight is exactly 0 and every weight is <= 0.  Stated for the
\* populations whose weights are all numbers, so that it does not rest on the
\* quotient 0 / 0 of a particle without matched points.
C1_MaxWeightIsZero ==
    (/\ pc = "returned"
     /\ Size(particles) >= 1
     /\ \A i \in DOMAIN particles : ~particles[i].weight.nan) =>
        /\ \E i \in DOMAIN particles : particles[i].weight = Zero
        /\ \A i \in DOMAIN particles : LeqZero(particles[i].weight)

\* C2: once the caller is past join_all (reading the maximum, normalising,
\* returned), every worker has finished and has written every weight of its range.
C2_WorkersDoneBeforeNormalization ==
    PostJoin =>
        \A t \in 0..(n_threads - 1) :
            /\ wpc[t] = "done"
            /\ \A i \in Range(Size(particles), n_threads, t) : t \in writers[i]
C2_Witness ==
    /\ pc = "findmax"
    /\ n_threads >= 2
    /\ Size(particles) >= 2
    /\ \A i \in DOMAIN particles : writers[i] # {}

\* C3: the workers' index ranges are ordered, pairwise disjoint and cover
\* exactly 0..n-1; no weight is ever written by two workers, a worker writes
\* only inside its range, and after the join each weight has exactly one writer.
C3_RangesPartition ==
    LET n == Size(particles)
        T == n_threads
    IN  /\ \A i \in 0..(n - 1) : Cardinality({t \in 0..(T - 1) : i \in Range(n, T, t)}) = 1
        /\ \A t \in 0..(T - 1) : Range(n, T, t) \subseteq 0..(n - 1)
        /\ \A t, u \in 0..(T - 1) :
              t < u => \A i \in Range(n, T, t) : \A j \in Range(n, T, u) : i < j
        /\ \A i \in 0..(n - 1) :
              /\ Cardinality(writers[i]) <= 1
              /\ \A t \in writers[i] : i \in Range(n, T, t)
              /\ PostJoin => Cardinality(writers[i]) = 1
C3_Witness ==
    /\ pc = "returned"
    /\ Size(particles) = 3
    /\ n_threads = 2
    /\ writers[2] = {1}

C5_NoMatchGivesSentinel ==
    \A i \in DOMAIN particles :
        (pc = "create" /\ writers[i] # {} /\ n_tot(pcs_robot, particles[i]) = 0) =>
            particles[i].weight = p_min

\* C6: after the call every scan cloud holds the points the caller passed.
C6_ScansUnchanged == pc = "returned" => pcs_robot = pcs_in

----------------------------------------------------------------------------
(* Claims about the elevation map, checked under SpecMap. *)

\* The cloud (0,0,1), (0,0,2), (1,1,5) at resolution 1, in units of a quarter
\* of the resolution.
ExampleCloud == <<EPt(0, 0, 1), EPt(0, 0, 2), EPt(4, 4, 5)>>
ExampleResolution == 2 * resolution_min_
Cells == (0..(x_size - 1)) \X (0..(y_size - 1))

\* C7: every input point with finite x and y maps through the tile lookup to
\* an in-bounds cell of the constructed grid; for the example cloud the cell
\* containing (0,0) is 2, the cell containing (1,1) is 5, all other cells NaN.
C7_EveryPointInBounds ==
    em_state = "built" =>
        /\ \A i \in FiniteXY(point_cloud) :
              tile(point_cloud[i], x_min_, y_min_, resolution_, x_size, y_size)[1]
        /\ (point_cloud = ExampleCloud /\ resolution = ExampleResolution) =>
              /\ elevation(ExampleCloud[1]) = Dbl(2, 0)
              /\ elevation(ExampleCloud[3]) = Dbl(5, 0)
              /\ \A c \in Cells : map_[c] \in {Dbl(2, 0), Dbl(5, 0), NaN}
              /\ Cardinality({c \in Cells : ~map_[c].nan}) = 2

\* C8: a cell that received input points holds the maximum z of the points
\* falling in it, a cell that received none is NaN.
C8_CellIsMaxZ ==
    em_state = "built" =>
        \A c \in Cells :
            LET pts == {i \in FiniteXY(point_cloud) :
                           tile(point_cloud[i], x_min_, y_min_, resolution_, x_size, y_size)
                               = <<TRUE, c[1], c[2]>>}
            IN  IF pts = {} THEN map_[c] = NaN
                ELSE /\ \E i \in pts : map_[c] = Dbl(point_cloud[i].z, 0)
                     /\ \A i \in pts : ~Less(map_[c], Dbl(point_cloud[i].z, 0))

----------------------------------------------------------------------------
(* Claims about the particle filter and the motion model, checked under SpecFilter. *)

\* C9: with zero start-pose variance every particle's pose equals start_pose
\* after init(n, start_pose); after a following update_motion(identity) with
\* zero motion covariance, get_mean() is start_pose's origin.
C9_InitAtStartPose ==
    /\ ops = <<"init0">> => \A i \in DOMAIN particles : particles[i].pose = init_pose
    /\ (ops = <<"init0", "move_identity", "mean">> /\ noiseless) =>
          mean = <<init_pose.x, init_pose.y>>

\* C10: while the motion covariance is zero, after the movements m1..mk each
\* particle's pose is its pose after init times m1 ... mk, applied on the right.
C10_PoseTimesMovement ==
    (ops # << >> /\ noiseless) =>
        \A i \in DOMAIN particles : particles[i].pose = Compose(base[i], acc)
\* Two movements that do not commute with each other nor with the particle's pose.
C10_Witness ==
    /\ noiseless
    /\ Cardinality({k \in 1..Len(ops) : ops[k] = "move"}) = 2
    /\ \E i \in DOMAIN particles :
          /\ particles[i].pose = Compose(base[i], acc)
          /\ particles[i].pose # Compose(acc, base[i])

----------------------------------------------------------------------------
(* Claims about compute_particle_weight, checked under SpecSensor. *)

\* The sum, over the finite points of all clouds transformed by the pose, of
\* the capped distance from each point's own position to its nearest map point.
SumOfOwnDistances(pcs, particle) ==
    LET pcs_map == [i \in 1..Len(pcs) |-> TransformCloud(particle.pose, pcs[i])]
        idx == FiniteIndices(pcs_map)
        capped == [e \in idx |-> Min(d_max, Sqrt(nearestKSearch(pcs_map[e[1]][e[2]])))]
    IN  SumOver(capped, idx)
\* No cloud is read past its end while it is walked.
NoStaleRead(pcs) == \A ic \in 1..Len(pcs) : pcs[ic] = << >> \/ ic <= Len(pcs[ic])

\* C11: the weight compute_particle_weight gives a particle with matched
\* points (before normalisation) is the mean, over the finite points of all
\* transformed clouds, of min(d_max, distance from that point to its nearest
\* map point).  Stated for scan sets that cause no read past the end of a cloud.
C11_WeightIsMeanCappedDistance ==
    \A i \in DOMAIN particles :
        (/\ pc = "create"
         /\ writers[i] # {}
         /\ NoStaleRead(pcs_robot)
         /\ n_tot(pcs_robot, particles[i]) >= 1) =>
            particles[i].weight =
                MeanDistance(SumOfOwnDistances(pcs_robot, particles[i]),
                             n_tot(pcs_robot, particles[i]))

----------------------------------------------------------------------------
(* Claims about the filter's population, checked under SpecFilter. *)

SameWeights(ps, qs) ==
    DOMAIN qs = DOMAIN ps /\ \A i \in DOMAIN ps : qs[i].weight = ps[i].weight
SamePoses(ps, qs) ==
    DOMAIN qs = DOMAIN ps /\ \A i \in DOMAIN ps : qs[i].pose = ps[i].pose

====
